---- MODULE Spec2Model ----
(***************************************************************************)
(* Model of video_downloader_mac.js (JXA script, version 1.6.0): the run   *)
(* entry point, the metadata fetcher, the download executor with its       *)
(* outcome classification, the executable resolver and the folder-name     *)
(* sanitizer.                                                              *)
(*                                                                         *)
(* A JavaScript string is a sequence of tokens.  In a string the code      *)
(* inspects (a title, a folder name, the downloader's output, a directory  *)
(* it splits) every character the code looks at is a token of its own      *)
(* ("/", " ", ":", ...) and the rest is indivisible text; a string the     *)
(* code only passes on (a URL, a command line, a message) is opaque text.  *)
(* The Japanese literals of the source are written as ASCII glosses:       *)
(*   "TitleInfo" = "タイトル情報"   "Fetch"  = "取得"   "Failed" = "失敗"  *)
(*   "Parse"     = "パース"         "Error"  = "エラー"                    *)
(* so "タイトル情報取得失敗" is <<"TitleInfo", "Fetch", "Failed">>.        *)
(* null / undefined is the reserved value Null.                            *)
(***************************************************************************)
EXTENDS Integers, Sequences, FiniteSets, TLC

VARIABLES
    pc,               \* position of run: "start" .. "done"; "idle" in the unit specifications
    input,            \* run: the parameter input
    notifyThrows,     \* environment: APP.displayNotification throws during this run
    initialUrl,       \* run: const initialUrl
    ytDlpPath,        \* run: const ytDlpPath
    ffmpegPath,       \* run: const ffmpegPath
    opts,             \* run: result of parseInputArguments(input)
    defaultBaseDownloadsPath, \* run: const defaultBaseDownloadsPath
    infoJson,         \* what the metadata command returned (history, for the claims)
    videoInfo,        \* run: const videoInfo
    i,                \* run: loop index of the playlist loop (0-based)
    successCount,     \* run: let successCount
    failureCount,     \* run: let failureCount
    events,           \* every external effect so far, in order: shell commands, notifications, alerts
    dlCalls,          \* the videoEntry argument of every downloadVideoEntry call so far (history)
    dlResults,        \* per call: what the download command did, the branch taken, the value returned (history)
    ret,              \* the value run returned, Null while it is running
    unit              \* the unit specifications: the last function application

vars == <<pc, input, notifyThrows, initialUrl, ytDlpPath, ffmpegPath, opts,
          defaultBaseDownloadsPath, infoJson, videoInfo, i, successCount,
          failureCount, events, dlCalls, dlResults, ret, unit>>

runVars == <<pc, input, notifyThrows, initialUrl, ytDlpPath, ffmpegPath, opts,
             defaultBaseDownloadsPath, infoJson, videoInfo, i, successCount,
             failureCount, events, dlCalls, dlResults, ret>>

----------------------------------------------------------------------------
(* JavaScript values and string primitives                                 *)

Null == <<"<null>">>

\* !x for a string-or-null x: null, undefined and "" are falsy
Truthy(x) == x # Null /\ x # <<>>

\* a || b
Or(a, b) == IF Truthy(a) THEN a ELSE b

Whitespace == {" ", "\n"}

RECURSIVE TrimStart(_)
TrimStart(s) ==
    IF s # <<>> /\ Head(s) \in Whitespace THEN TrimStart(Tail(s)) ELSE s

RECURSIVE TrimEnd(_)
TrimEnd(s) ==
    IF s # <<>> /\ s[Len(s)] \in Whitespace
    THEN TrimEnd(SubSeq(s, 1, Len(s) - 1))
    ELSE s

\* String.prototype.trim
Trim(s) == TrimEnd(TrimStart(s))

\* String.prototype.includes
Includes(s, sub) ==
    \E k \in 0..(Len(s) - Len(sub)) : SubSeq(s, k + 1, k + Len(sub)) = sub

\* String.prototype.startsWith
StartsWith(s, p) == Len(s) >= Len(p) /\ SubSeq(s, 1, Len(p)) = p

\* s.split(sep).pop(): the text after the last sep, all of s when there is none
RECURSIVE SplitPop(_, _)
SplitPop(s, sep) ==
    IF s = <<>> THEN <<>>
    ELSE IF s[Len(s)] = sep THEN <<>>
    ELSE SplitPop(SubSeq(s, 1, Len(s) - 1), sep) \o <<s[Len(s)]>>

\* the tokens of s, as a set
Tokens(s) == {s[k] : k \in 1..Len(s)}

\* the sequences over a set up to a length
SeqsUpTo(S, n) == UNION {[1..m -> S] : m \in 0..n}

----------------------------------------------------------------------------
(* sanitizeFolderName                                                      *)

\* the character class of the regular expression /[\/\\:;\*\?"<>\|]/g
ForbiddenChars == {"/", "\\", ":", ";", "*", "?", "\"", "<", ">", "|"}

Untitled_Folder == <<"Untitled_Folder">>

\* a value that is not a string (a number, an object): typeof x !== "string"
NotAString == <<"<object>">>

\* mutant: the character class without the semicolon
ReplaceForbiddenLosingSemicolon(s) ==
    [k \in 1..Len(s) |-> IF s[k] \in (ForbiddenChars \ {";"}) THEN "_" ELSE s[k]]

\* folderName.replace(/[\/\\:;\*\?"<>\|]/g, "_")
ReplaceForbidden(s) ==
    [k \in 1..Len(s) |-> IF s[k] \in ForbiddenChars THEN "_" ELSE s[k]]

sanitizeFolderName(folderName) ==
    IF ~Truthy(folderName) \/ folderName = NotAString
    THEN Untitled_Folder
    ELSE Or(Trim(ReplaceForbidden(folderName)), Untitled_Folder)

----------------------------------------------------------------------------
(* External effects.  Text that the code only passes on (command lines,    *)
(* messages, URLs, directory prefixes) is written with opaque tokens.      *)

ShellEvent(command) ==
    [type |-> "shell", title |-> <<>>, message |-> command, extra |-> <<>>]

LogEvent(message) ==
    [type |-> "log", title |-> <<>>, message |-> message, extra |-> <<>>]

NotificationEvent(title, message, subtitle) ==
    [type |-> "notification", title |-> title, message |-> message, extra |-> subtitle]

AlertEvent(title, message, asType) ==
    [type |-> "alert", title |-> title, message |-> message, extra |-> <<asType>>]

\* showNotification(title, message, subtitle = ""): the effects it has.
\* APP.displayNotification either shows the notification or throws, and then
\* the catch block logs and shows a warning alert instead.
showNotification(title, message, subtitle) ==
    IF notifyThrows
    THEN << LogEvent(<<"NotificationDisplayError: ", "e.message">>),
            AlertEvent(<<"NotificationDisplayError">>,
                       <<"Title: ">> \o title \o <<"\nMessage: ">> \o message
                           \o <<"\n\nErrorDetail: ", "e.message">>,
                       "warning") >>
    ELSE << NotificationEvent(title, message,
                              IF Truthy(subtitle) THEN subtitle ELSE Null) >>

\* showErrorDialog(title, message, asType = "critical")
showErrorDialog(title, message, asType) ==
    << AlertEvent(title, message, asType) >>

----------------------------------------------------------------------------
(* getActiveBrowserUrl                                                     *)

Safari == <<"Safari">>
GoogleChrome == <<"Google Chrome">>

\* the page the browsers show; a URL is passed on, never inspected
TargetUrl == <<"https://site/page">>

\* the desktop: the frontmost application's name (Null when there is none)
\* and what each browser reports for its front tab (Null: no window or tab)
Desktops ==
    [frontAppName : {Null, Safari, GoogleChrome, <<"Finder">>},
     safariUrl : {Null, <<>>, TargetUrl},
     chromeUrl : {Null, <<>>, TargetUrl}]

\* urlHandlers[frontAppName]: is there a handler, and what it returns
HasUrlHandler(frontAppName) == frontAppName \in {Safari, GoogleChrome}

UrlHandler(desktop) ==
    IF desktop.frontAppName = Safari THEN desktop.safariUrl ELSE desktop.chromeUrl

\* mutant: a dialog shown when the frontmost application is no supported browser
getActiveBrowserUrlWithDialog(desktop) ==
    IF ~Truthy(desktop.frontAppName)
    THEN [url |-> Null, evs |-> <<LogEvent(<<"no frontmost application name">>)>>]
    ELSE IF HasUrlHandler(desktop.frontAppName)
    THEN IF Truthy(UrlHandler(desktop))
         THEN [url |-> UrlHandler(desktop), evs |-> <<>>]
         ELSE [url |-> Null,
               evs |-> <<LogEvent(desktop.frontAppName \o <<": no URL (empty tab, error)">>)>>]
    ELSE [url |-> Null,
          evs |-> showErrorDialog(<<"unsupported browser">>, desktop.frontAppName, "critical")]

\* returns [url, evs]: the URL or Null, and the console output
getActiveBrowserUrl(desktop) ==
    IF ~Truthy(desktop.frontAppName)
    THEN [url |-> Null, evs |-> <<LogEvent(<<"no frontmost application name">>)>>]
    ELSE IF HasUrlHandler(desktop.frontAppName)
    THEN IF Truthy(UrlHandler(desktop))
         THEN [url |-> UrlHandler(desktop), evs |-> <<>>]
         ELSE [url |-> Null,
               evs |-> <<LogEvent(desktop.frontAppName \o <<": no URL (empty tab, error)">>)>>]
    ELSE [url |-> Null,
          evs |-> <<LogEvent(<<"unsupported browser: ">> \o desktop.frontAppName)>>]

----------------------------------------------------------------------------
(* executeShellCommand                                                     *)

\* What APP.doShellScript does with a command: it returns text, or it throws
\* an error e with e.message = text and e.number = number (0: no number).
ShellReturns(text) == [thrown |-> FALSE, text |-> text, number |-> 0]
ShellThrows(text, number) == [thrown |-> TRUE, text |-> text, number |-> number]

\* returns {output, exitCode}
executeShellCommand(sh) ==
    IF ~sh.thrown
    THEN [output |-> sh.text, exitCode |-> 0]
    ELSE [output |-> sh.text,
          exitCode |-> IF sh.number # 0 THEN sh.number ELSE 1]

----------------------------------------------------------------------------
(* findExec                                                                *)

YtDlp == <<"yt-dlp">>
Ffmpeg == <<"ffmpeg">>

commonPaths == << <<"/opt/homebrew/bin">>, <<"/usr/local/bin">> >>

\* The host, as one lookup sees it: what `command -v` does, and which of the
\* commonPaths hold an executable of that name.
CommandVOutcomes(name) ==
    { ShellThrows(<<>>, 1),
      ShellReturns(name),                                 \* a shell function or alias
      ShellReturns(<<"/", "usr/bin/">> \o name \o <<"\n">>) }

Hosts(name) ==
    [commandV : CommandVOutcomes(name), executable : SUBSET (1..Len(commonPaths))]

\* the path `command -v` gives, or Null
PathFromCommandV(host) ==
    IF ~host.commandV.thrown /\ StartsWith(Trim(host.commandV.text), <<"/">>)
    THEN Trim(host.commandV.text)
    ELSE Null

\* for (const p of commonPaths): from the k-th on, [path, evs]
RECURSIVE ProbeCommonPaths(_, _, _)
ProbeCommonPaths(name, host, k) ==
    IF k > Len(commonPaths) THEN [path |-> Null, evs |-> <<>>]
    ELSE LET fullPath == commonPaths[k] \o <<"/">> \o name
             probe == ShellEvent(<<"test -x ">> \o fullPath)
         IN  IF k \in host.executable
             THEN [path |-> fullPath, evs |-> <<probe>>]
             ELSE LET rest == ProbeCommonPaths(name, host, k + 1)
                  IN  [path |-> rest.path, evs |-> <<probe>> \o rest.evs]

\* returns [path, evs]: the full path or Null (with the error dialog shown)
findExec(name, host) ==
    LET lookup == ShellEvent(<<"command -v ">> \o name)
        first == PathFromCommandV(host)
        probed == IF Truthy(first)
                  THEN [path |-> first, evs |-> <<>>]
                  ELSE ProbeCommonPaths(name, host, 1)
    IN  IF ~Truthy(probed.path)
        THEN [path |-> Null,
              evs |-> <<lookup>> \o probed.evs
                      \o showErrorDialog(name \o <<" ExecError">>,
                                         name \o <<" not found; check the installation">>,
                                         "critical")]
        ELSE [path |-> probed.path, evs |-> <<lookup>> \o probed.evs]

----------------------------------------------------------------------------
(* Command lines                                                           *)

\* `"${x}"`
Quoted(x) == <<"\"">> \o x \o <<"\"">>

\* args.filter((arg) => arg !== "").join(" ")
RECURSIVE JoinArgs(_)
JoinArgs(args) ==
    IF args = <<>> THEN <<>>
    ELSE IF Head(args) = <<>> THEN JoinArgs(Tail(args))
    ELSE LET rest == JoinArgs(Tail(args))
         IN  IF rest = <<>> THEN Head(args) ELSE Head(args) \o <<" ">> \o rest

----------------------------------------------------------------------------
(* parseInputArguments                                                     *)

NoOptions ==
    [downloadDir |-> Null, fileNameTemplate |-> Null,
     downloadArchive |-> Null, cookiesFromBrowser |-> Null]

\* the for loop from index k (1-based) on, acc the four variables so far
RECURSIVE ParseFrom(_, _, _)
ParseFrom(inputArgs, k, acc) ==
    IF k > Len(inputArgs) THEN acc
    ELSE IF inputArgs[k] = <<"-d">> /\ k + 1 <= Len(inputArgs)
    THEN ParseFrom(inputArgs, k + 2, [acc EXCEPT !.downloadDir = inputArgs[k + 1]])
    ELSE IF inputArgs[k] = <<"-f">> /\ k + 1 <= Len(inputArgs)
    THEN ParseFrom(inputArgs, k + 2, [acc EXCEPT !.fileNameTemplate = inputArgs[k + 1]])
    ELSE IF inputArgs[k] = <<"-a">> /\ k + 1 <= Len(inputArgs)
    THEN ParseFrom(inputArgs, k + 2, [acc EXCEPT !.downloadArchive = inputArgs[k + 1]])
    ELSE IF inputArgs[k] = <<"-c">> /\ k + 1 <= Len(inputArgs)
    THEN ParseFrom(inputArgs, k + 2, [acc EXCEPT !.cookiesFromBrowser = inputArgs[k + 1]])
    ELSE ParseFrom(inputArgs, k + 1, acc)

\* inputArgs is an array of strings, or NotAString when Automator passes no array
parseInputArguments(inputArgs) ==
    IF inputArgs = NotAString THEN NoOptions ELSE ParseFrom(inputArgs, 1, NoOptions)

----------------------------------------------------------------------------
(* getVideoOrPlaylistInfo                                                  *)

FetchingLabel == <<"TitleInfo", "Fetch", "InProgress...">>  \* "タイトル情報取得中..."
FetchFailedLabel == <<"TitleInfo", "Fetch", "Failed">>      \* "タイトル情報取得失敗"
ParseFailedLabel == <<"TitleInfo", "Parse", "Failed">>      \* "タイトル情報パース失敗"
FetchErrorLabel == <<"TitleInfo", "Fetch", "Error">>        \* "タイトル情報取得エラー"
UntitledPlaylist == <<"Untitled", "Playlist">>              \* "無題のプレイリスト"
UntitledVideo == <<"Untitled", "Video">>                    \* "無題の動画"
UnknownVideo == <<"Unknown", "Video">>                      \* "不明な動画"

\* `無題の動画 ${index + 1}`, index 0-based
UntitledVideoN(index) == UntitledVideo \o <<" ", ToString(index + 1)>>

\* a VideoEntry as the fetcher and run build it: {url, title}; the property
\* playlist_title is never set, so reading it gives undefined
VideoEntry(url, title) == [url |-> url, title |-> title, playlist_title |-> Null]

\* The text the metadata command prints, by what JSON.parse makes of it:
\*   "empty"      the empty string
\*   "malformed"  text that JSON.parse rejects (also an error message)
\*   "null"       the JSON literal null
\*   "object"     a JSON object with the fields below; an absent field is
\*                "" (_type), Null (title, webpage_url) or hasEntries = FALSE;
\*                a member entry is null (isNull) or an object {url, title, id}
JsonText(kind, type, title, webpage_url, hasEntries, entries) ==
    [kind |-> kind, _type |-> type, title |-> title, webpage_url |-> webpage_url,
     hasEntries |-> hasEntries, entries |-> entries]

NoJson(kind) == JsonText(kind, "", Null, Null, FALSE, <<>>)

JsonEntry(isNull, url, title) ==
    [isNull |-> isNull, url |-> url, title |-> title, id |-> Null]

\* a member entry that carries an id and a title but no url; the map callback
\* reads entry.url and entry.title only
JsonEntryOfId(id, title) == [isNull |-> FALSE, url |-> Null, title |-> title, id |-> id]

\* entries.map((entry, index) => ({url: entry.url, title: entry.title || ...}))
MapEntries(entries) ==
    IF entries = <<>> THEN <<>>
    ELSE [k \in 1..Len(entries) |->
            VideoEntry(entries[k].url, Or(entries[k].title, UntitledVideoN(k - 1)))]

\* the value of the four variables when control leaves the inner try block
ParsedInfo(parsedInfo, targetUrl) ==
    IF parsedInfo.kind = "malformed" \/ parsedInfo.kind = "null"
    THEN \* JSON.parse throws, or parsedInfo._type throws on null
         [title |-> ParseFailedLabel, isPlaylist |-> FALSE, entries |-> <<>>,
          webpage_url |-> targetUrl]
    ELSE IF parsedInfo._type = "playlist" \/ parsedInfo.hasEntries
    THEN IF \E k \in 1..Len(parsedInfo.entries) : parsedInfo.entries[k].isNull
         THEN \* entry.url throws inside map, after the first three assignments
              [title |-> ParseFailedLabel, isPlaylist |-> TRUE, entries |-> <<>>,
               webpage_url |-> Or(parsedInfo.webpage_url, targetUrl)]
         ELSE [title |-> Or(parsedInfo.title, UntitledPlaylist),
               isPlaylist |-> TRUE,
               entries |-> MapEntries(parsedInfo.entries),
               webpage_url |-> Or(parsedInfo.webpage_url, targetUrl)]
    ELSE [title |-> Or(parsedInfo.title, UntitledVideo), isPlaylist |-> FALSE,
          entries |-> <<>>, webpage_url |-> parsedInfo.webpage_url]

\* What the metadata command does: sh as for executeShellCommand, its text a
\* JsonText; exception: something in the outer try block throws after the
\* command has run (the handler at the end of the function catches it).
MetaOutcome(sh, exception) == [sh |-> sh, exception |-> exception]

\* returns [info, evs]: the VideoInfo {title, isPlaylist, entries, webpage_url}
getVideoOrPlaylistInfo(ytDlpPath_, targetUrl, cookiesFromBrowser, outcome) ==
    LET ytDlpArgs ==
            << Quoted(ytDlpPath_), <<"-J">>, <<"--flat-playlist">>, <<"--no-warnings">>,
               <<"--no-check-certificate">>,
               IF Truthy(cookiesFromBrowser)
               THEN <<"--cookies-from-browser ">> \o Quoted(cookiesFromBrowser)
               ELSE <<>>,
               Quoted(targetUrl) >>
        infoCommand == JoinArgs(ytDlpArgs)
        r == executeShellCommand(outcome.sh)
        run_ == ShellEvent(infoCommand \o <<" 2>&1">>)
        initial == [title |-> FetchingLabel, isPlaylist |-> FALSE, entries |-> <<>>,
                    webpage_url |-> targetUrl]
    IN  IF outcome.exception
        THEN [info |-> [initial EXCEPT !.title = FetchErrorLabel],
              evs |-> <<run_, LogEvent(<<"metadata command error">>)>>]
        ELSE IF r.exitCode = 0 /\ r.output.kind # "empty"
        THEN LET info == ParsedInfo(r.output, targetUrl)
             IN  [info |-> info,
                  evs |-> IF info.title = ParseFailedLabel
                              /\ (r.output.kind # "object"
                                  \/ \E k \in 1..Len(r.output.entries) : r.output.entries[k].isNull)
                          THEN <<run_, LogEvent(<<"JSON parse error">>)>>
                          ELSE <<run_>>]
        ELSE [info |-> [initial EXCEPT !.title = FetchFailedLabel],
              evs |-> <<run_, LogEvent(<<"metadata fetch failed, code ", ToString(r.exitCode)>>)>>]

----------------------------------------------------------------------------
(* downloadVideoEntry                                                      *)

\* The downloader's output is spelled with these tokens (and "/", " ", "\n"):
DownloadTag == "[download] "                      \* the literal "[download] "
AlreadyTag == " has already been downloaded"      \* the literal " has already been downloaded"

\* commandOutput.match(/\[download\] (.*?) has already been downloaded/):
\* the positions p of a "[download] " from which the pattern matches, i.e. an
\* " has already been downloaded" follows with no line break in between
MatchStarts(commandOutput) ==
    {p \in 1..Len(commandOutput) :
        /\ commandOutput[p] = DownloadTag
        /\ \E q \in (p + 1)..Len(commandOutput) :
              /\ commandOutput[q] = AlreadyTag
              /\ \A r \in (p + 1)..(q - 1) : commandOutput[r] # "\n"}

\* the first AlreadyTag after position p (the group (.*?) is lazy)
FirstAlreadyAfter(commandOutput, p) ==
    CHOOSE q \in (p + 1)..Len(commandOutput) :
        /\ commandOutput[q] = AlreadyTag
        /\ \A r \in (p + 1)..(q - 1) : commandOutput[r] # AlreadyTag

\* alreadyDownloadedMatch: [matched, group1] of the leftmost match
alreadyDownloadedMatch(commandOutput) ==
    LET starts == MatchStarts(commandOutput)
    IN  IF starts = {} THEN [matched |-> FALSE, group1 |-> <<>>]
        ELSE LET p == CHOOSE x \in starts : \A y \in starts : x <= y
                 q == FirstAlreadyAfter(commandOutput, p)
             IN  [matched |-> TRUE, group1 |-> SubSeq(commandOutput, p + 1, q - 1)]

\* mutant: the regular expression without its flag i
LowerCaseSensitive(token) ==
    CASE token = "Unsupported" -> "unsupported"
      [] token = "URL" -> "url"
      [] OTHER -> "<other>"

\* toLowerCase of the words of "Unsupported URL" (the flag i of the regex)
LowerCase(token) ==
    CASE token \in {"Unsupported", "UNSUPPORTED", "unsupported"} -> "unsupported"
      [] token \in {"URL", "url", "Url"} -> "url"
      [] OTHER -> token

\* /Unsupported URL/i.test(commandOutput)
UnsupportedUrlTest(commandOutput) ==
    \E k \in 1..(Len(commandOutput) - 2) :
        /\ LowerCase(commandOutput[k]) = "unsupported"
        /\ commandOutput[k + 1] = " "
        /\ LowerCase(commandOutput[k + 2]) = "url"

\* mutant: the already-downloaded name reported with its directories
ClassifyWholePath(entryTitle, commandOutput, exitCode) ==
    IF exitCode = 0
    THEN LET m == alreadyDownloadedMatch(commandOutput)
         IN  IF m.matched
             THEN [status |-> "AlreadyDownloaded",
                   detail |-> Or(Trim(m.group1), entryTitle)]
             ELSE [status |-> "Success", detail |-> entryTitle]
    ELSE IF UnsupportedUrlTest(commandOutput)
         THEN [status |-> "Unsupported", detail |-> <<>>]
         ELSE [status |-> "Failed", detail |-> commandOutput]

\* mutant: the unsupported-URL test made before the exit code is looked at
ClassifyUnsupportedFirst(entryTitle, commandOutput, exitCode) ==
    IF UnsupportedUrlTest(commandOutput)
    THEN [status |-> "Unsupported", detail |-> <<>>]
    ELSE IF exitCode = 0
    THEN LET m == alreadyDownloadedMatch(commandOutput)
         IN  IF m.matched
             THEN [status |-> "AlreadyDownloaded",
                   detail |-> Or(Trim(SplitPop(m.group1, "/")), entryTitle)]
             ELSE [status |-> "Success", detail |-> entryTitle]
    ELSE [status |-> "Failed", detail |-> commandOutput]

\* mutant: exit code 0 always reported as a completed download
ClassifyIgnoringMarker(entryTitle, commandOutput, exitCode) ==
    IF exitCode = 0
    THEN [status |-> "Success", detail |-> entryTitle]
    ELSE IF UnsupportedUrlTest(commandOutput)
         THEN [status |-> "Unsupported", detail |-> <<>>]
         ELSE [status |-> "Failed", detail |-> commandOutput]

\* The branch taken after the command (lines 248-270) and the text it reports:
\* status names the branch, detail the text put into the message.
Classify(entryTitle, commandOutput, exitCode) ==
    IF exitCode = 0
    THEN LET m == alreadyDownloadedMatch(commandOutput)
         IN  IF m.matched
             THEN LET alreadyDownloadedTitle == Trim(SplitPop(m.group1, "/"))
                  IN  [status |-> "AlreadyDownloaded",
                       detail |-> Or(alreadyDownloadedTitle, entryTitle)]
             ELSE [status |-> "Success", detail |-> entryTitle]
    ELSE IF UnsupportedUrlTest(commandOutput)
         THEN [status |-> "Unsupported", detail |-> <<>>]
         ELSE [status |-> "Failed", detail |-> commandOutput]

\* mutant: the cookie flag put after the target URL
DownloadCommandCookiesLast(entryUrl, ytDlpPath_, ffmpegPath_, finalOutputTemplate, downloadArchive, cookiesFromBrowser) ==
    JoinArgs(<< Quoted(ytDlpPath_),
                <<"--ffmpeg-location ">> \o Quoted(ffmpegPath_),
                <<"-S codec:avc:aac,res:1080,fps:60,hdr:sdr">>,
                <<"-f bv+ba/b">>,
                <<"-o ">> \o Quoted(finalOutputTemplate),
                <<"--ppa \"Merger+ffmpeg_o1:-map_metadata -1\"">>,
                IF Truthy(downloadArchive)
                THEN <<"--download-archive ">> \o Quoted(downloadArchive) ELSE <<>>,
                Quoted(entryUrl),
                IF Truthy(cookiesFromBrowser)
                THEN <<"--cookies-from-browser ">> \o Quoted(cookiesFromBrowser) ELSE <<>> >>)

\* the yt-dlp command line of one download
DownloadCommand(entryUrl, ytDlpPath_, ffmpegPath_, finalOutputTemplate, downloadArchive, cookiesFromBrowser) ==
    JoinArgs(<< Quoted(ytDlpPath_),
                <<"--ffmpeg-location ">> \o Quoted(ffmpegPath_),
                <<"-S codec:avc:aac,res:1080,fps:60,hdr:sdr">>,
                <<"-f bv+ba/b">>,
                <<"-o ">> \o Quoted(finalOutputTemplate),
                <<"--ppa \"Merger+ffmpeg_o1:-map_metadata -1\"">>,
                IF Truthy(downloadArchive)
                THEN <<"--download-archive ">> \o Quoted(downloadArchive) ELSE <<>>,
                IF Truthy(cookiesFromBrowser)
                THEN <<"--cookies-from-browser ">> \o Quoted(cookiesFromBrowser) ELSE <<>>,
                Quoted(entryUrl) >>)

\* the effects of the branch Classify names
ReportOutcome(c, entryTitle, entryUrl, exitCode, commandOutput) ==
    CASE c.status = "AlreadyDownloaded" ->
            showNotification(<<"yt-dlp DownloadSuccess">>,
                             <<"[">> \o c.detail \o <<"] is already downloaded.">>, <<>>)
      [] c.status = "Success" ->
            showNotification(<<"yt-dlp DownloadSuccess">>,
                             <<"[">> \o c.detail \o <<"] download completed.">>, <<>>)
      [] c.status = "Unsupported" ->
            showNotification(<<"yt-dlp Info">>,
                             <<"[">> \o entryTitle \o <<"]:\nunsupported URL.">>, entryUrl)
      [] OTHER ->
            showErrorDialog(<<"yt-dlp/shell error (code: ", ToString(exitCode), ") - ">>
                                \o entryTitle,
                            <<"download of [">> \o entryTitle \o <<"] failed.\nURL: ">>
                                \o entryUrl \o <<"\n\nerror output:\n">> \o commandOutput,
                            "critical")

\* mutant: the start notification shown before the URL is looked at
MissingUrlAfterStart(entryTitle) ==
    [ok |-> FALSE,
     evs |-> showNotification(<<"yt-dlp DownloadStart">>, <<"target: ">> \o entryTitle,
                              <<"starting...">>)
             \o showErrorDialog(<<"DownloadError">>,
                                <<"URL of [">> \o entryTitle \o <<"] not found. Skipping.">>,
                                "warning"),
     status |-> "MissingUrl", detail |-> <<>>]

\* mutant: an item without a URL skipped and reported as done
MissingUrlReturnsTrue(entryTitle) ==
    [ok |-> TRUE,
     evs |-> showErrorDialog(<<"DownloadError">>,
                             <<"URL of [">> \o entryTitle \o <<"] not found. Skipping.">>,
                             "warning"),
     status |-> "MissingUrl", detail |-> <<>>]

\* if (!entryUrl) { showErrorDialog(..., "warning"); return false; }
MissingUrl(entryTitle) ==
    [ok |-> FALSE,
     evs |-> showErrorDialog(<<"DownloadError">>,
                             <<"URL of [">> \o entryTitle \o <<"] not found. Skipping.">>,
                             "warning"),
     status |-> "MissingUrl", detail |-> <<>>]

\* mutant: the outcome reported before the command is run
downloadVideoEntryReportFirst(videoEntry, ytDlpPath_, ffmpegPath_, finalOutputTemplate, downloadArchive, cookiesFromBrowser, sh) ==
    LET entryTitle == Or(videoEntry.title, UntitledVideo)
        entryUrl == videoEntry.url
    IN  IF ~Truthy(entryUrl)
        THEN MissingUrl(entryTitle)
        ELSE LET commandToExecute ==
                     DownloadCommand(entryUrl, ytDlpPath_, ffmpegPath_, finalOutputTemplate,
                                     downloadArchive, cookiesFromBrowser)
                 r == executeShellCommand(sh)
                 c == Classify(entryTitle, r.output, r.exitCode)
             IN  [ok |-> c.status \in {"AlreadyDownloaded", "Success"},
                  evs |-> showNotification(<<"yt-dlp DownloadStart">>,
                                           <<"target: ">> \o entryTitle, <<"starting...">>)
                          \o ReportOutcome(c, entryTitle, entryUrl, r.exitCode, r.output)
                          \o <<ShellEvent(commandToExecute \o <<" 2>&1">>)>>,
                  status |-> c.status, detail |-> c.detail]

\* mutant: the command run a second time after a failure
downloadVideoEntryRetrying(videoEntry, ytDlpPath_, ffmpegPath_, finalOutputTemplate, downloadArchive, cookiesFromBrowser, sh) ==
    LET entryTitle == Or(videoEntry.title, UntitledVideo)
        entryUrl == videoEntry.url
    IN  IF ~Truthy(entryUrl)
        THEN MissingUrl(entryTitle)
        ELSE LET commandToExecute ==
                     DownloadCommand(entryUrl, ytDlpPath_, ffmpegPath_, finalOutputTemplate,
                                     downloadArchive, cookiesFromBrowser)
                 r == executeShellCommand(sh)
                 c == Classify(entryTitle, r.output, r.exitCode)
                 once == <<ShellEvent(commandToExecute \o <<" 2>&1">>)>>
             IN  [ok |-> c.status \in {"AlreadyDownloaded", "Success"},
                  evs |-> showNotification(<<"yt-dlp DownloadStart">>,
                                           <<"target: ">> \o entryTitle, <<"starting...">>)
                          \o (IF c.status = "Failed" THEN once \o once ELSE once)
                          \o ReportOutcome(c, entryTitle, entryUrl, r.exitCode, r.output),
                  status |-> c.status, detail |-> c.detail]

\* returns [ok, evs, status, detail]: the boolean result and the effects;
\* sh is what APP.doShellScript does with the download command
downloadVideoEntry(videoEntry, ytDlpPath_, ffmpegPath_, finalOutputTemplate, downloadArchive, cookiesFromBrowser, sh) ==
    LET entryTitle == Or(videoEntry.title, UntitledVideo)
        entryUrl == videoEntry.url
    IN  IF ~Truthy(entryUrl)
        THEN MissingUrl(entryTitle)
        ELSE LET startNotificationMessage ==
                     IF Truthy(videoEntry.playlist_title)
                     THEN <<"from playlist [">> \o videoEntry.playlist_title \o <<"]\n">>
                              \o <<"target: ">> \o entryTitle
                     ELSE <<"target: ">> \o entryTitle
                 commandToExecute ==
                     DownloadCommand(entryUrl, ytDlpPath_, ffmpegPath_, finalOutputTemplate,
                                     downloadArchive, cookiesFromBrowser)
                 r == executeShellCommand(sh)
                 c == Classify(entryTitle, r.output, r.exitCode)
             IN  [ok |-> c.status \in {"AlreadyDownloaded", "Success"},
                  evs |-> showNotification(<<"yt-dlp DownloadStart">>,
                                           startNotificationMessage, <<"starting...">>)
                          \o <<ShellEvent(commandToExecute \o <<" 2>&1">>)>>
                          \o ReportOutcome(c, entryTitle, entryUrl, r.exitCode, r.output),
                  status |-> c.status, detail |-> c.detail]

----------------------------------------------------------------------------
(* run: constants and the values the environment is drawn from             *)

DEFAULT_FILENAME_TEMPLATE_SINGLE == <<"%(title)s.%(ext)s">>

\* mutant: the playlist loop naming its files by the single-video template
PlaylistItemTemplateWithoutIndex == <<"%(title)s.%(ext)s">>
DEFAULT_FILENAME_TEMPLATE_PLAYLIST_ITEM == <<"%(playlist_index& - |)s%(title)s.%(ext)s">>

\* the longest playlist the metadata command reports
MaxEntries == 2

\* what `echo $HOME/Downloads` prints
HomeDownloads == <<"/", "Users", "/", "me", "/", "Downloads", "\n">>

UserDir == <<"/", "Volumes", "/", "Media">>
UserTemplate == <<"%(id)s.%(ext)s">>
UserArchive == <<"archive.txt">>
UserBrowser == <<"safari">>

\* the input Automator passes to run
Inputs ==
    { NotAString,
      <<>>,
      << <<"-d">>, UserDir >>,
      << <<"-f">>, UserTemplate >>,
      << <<"-c">>, UserBrowser >>,
      << <<"-d">>, UserDir, <<"-f">>, UserTemplate, <<"-a">>, UserArchive, <<"-c">>, UserBrowser >>,
      << <<"--verbose">>, <<"-a">>, UserArchive, <<"-d">> >> }

CanonicalUrl == <<"https://site/canonical">>
ItemUrl == <<"https://site/item">>

\* titles the metadata can carry: none, one with characters a folder name
\* cannot hold, and one that contains the words "取得失敗"
MetaTitles ==
    { Null,
      <<"Mix", ":", " ", "A", "/", "B">>,
      <<"My", "Fetch", "Failed", "Story">> }

OtherItemUrl == <<"https://site/other">>
ItemId == <<"abc123">>

JsonEntries ==
    { JsonEntry(TRUE, Null, Null),
      JsonEntry(FALSE, ItemUrl, <<"Item">>),
      JsonEntry(FALSE, Null, Null),
      JsonEntry(FALSE, OtherItemUrl, Null),
      JsonEntryOfId(ItemId, <<"Item">>) }

MetaObjects ==
    {JsonText("object", "video", t, u, FALSE, <<>>) :
        t \in MetaTitles, u \in {Null, CanonicalUrl}}
    \cup {JsonText("object", "playlist", t, CanonicalUrl, TRUE, es) :
        t \in MetaTitles, es \in SeqsUpTo(JsonEntries, MaxEntries)}
    \cup { JsonText("object", "playlist", <<"List">>, Null, FALSE, <<>>),
           JsonText("object", "", <<"List">>, Null, TRUE,
                    <<JsonEntry(FALSE, ItemUrl, Null)>>) }

\* what the metadata command does
MetaOutcomes ==
    {MetaOutcome(ShellReturns(j), FALSE) :
        j \in MetaObjects \cup {NoJson("empty"), NoJson("malformed"), NoJson("null")}}
    \cup {MetaOutcome(ShellThrows(NoJson("malformed"), n), FALSE) : n \in {0, 1}}
    \cup {MetaOutcome(ShellReturns(NoJson("malformed")), TRUE)}

\* what the download command does, in run
DownloadOutcomes ==
    { ShellReturns(<<DownloadTag, "Destination: ", "f.mp4", "\n">>),
      ShellReturns(<<DownloadTag, "/", "d", "/", "f.mp4", AlreadyTag>>),
      ShellThrows(<<"ERROR: ", "Unsupported", " ", "URL", ": ", "u">>, 1),
      ShellThrows(<<"ERROR: ", "network">>, 0) }

EmptyArray == <<>>

\* mutant: a missing downloader signalled through the return value
RunReturnSignalsError(where) ==
    IF where = "noYtDlp" THEN <<"yt-dlp not found">> ELSE EmptyArray

\* the value run returns at each of its return statements
RunReturn(where) == EmptyArray

\* videoInfo.title.includes("取得失敗") || videoInfo.title.includes("パース失敗")
IsFetchFailedTitle(title) ==
    Includes(title, <<"Fetch", "Failed">>) \/ Includes(title, <<"Parse", "Failed">>)

\* mutant: a return statement that does not leave run
FinishWithoutReturning(where) ==
    /\ pc' = pc
    /\ ret' = ret

\* return [];
Finish(where) ==
    /\ pc' = "done"
    /\ ret' = RunReturn(where)

----------------------------------------------------------------------------
(* run, one action per step between two external calls                     *)

NoInfo == [title |-> <<>>, isPlaylist |-> FALSE, entries |-> <<>>, webpage_url |-> Null]
NoMeta == MetaOutcome(ShellReturns(NoJson("empty")), FALSE)
NoUnit == [fn |-> "none"]

RunInit ==
    /\ pc = "start"
    /\ input \in Inputs
    /\ notifyThrows \in BOOLEAN
    /\ initialUrl = Null
    /\ ytDlpPath = Null
    /\ ffmpegPath = Null
    /\ opts = NoOptions
    /\ defaultBaseDownloadsPath = Null
    /\ infoJson = NoMeta
    /\ videoInfo = NoInfo
    /\ i = 0
    /\ successCount = 0
    /\ failureCount = 0
    /\ events = <<>>
    /\ dlCalls = <<>>
    /\ dlResults = <<>>
    /\ ret = Null

Init == RunInit /\ unit = NoUnit

\* const initialUrl = getActiveBrowserUrl(); if (!initialUrl) return [];
GetUrl ==
    /\ pc = "start"
    /\ \E desktop \in Desktops :
          LET r == getActiveBrowserUrl(desktop)
          IN  /\ initialUrl' = r.url
              /\ events' = events \o r.evs
              /\ IF ~Truthy(r.url)
                 THEN Finish("noUrl")
                 ELSE pc' = "findYtDlp" /\ ret' = ret
    /\ UNCHANGED <<input, notifyThrows, ytDlpPath, ffmpegPath, opts, defaultBaseDownloadsPath,
                   infoJson, videoInfo, i, successCount, failureCount, dlCalls, dlResults, unit>>

\* const ytDlpPath = findExec("yt-dlp"); if (!ytDlpPath) return [];
FindYtDlp ==
    /\ pc = "findYtDlp"
    /\ \E host \in Hosts(YtDlp) :
          LET r == findExec(YtDlp, host)
          IN  /\ ytDlpPath' = r.path
              /\ events' = events \o r.evs
              /\ IF ~Truthy(r.path)
                 THEN Finish("noYtDlp")
                 ELSE pc' = "findFfmpeg" /\ ret' = ret
    /\ UNCHANGED <<input, notifyThrows, initialUrl, ffmpegPath, opts, defaultBaseDownloadsPath,
                   infoJson, videoInfo, i, successCount, failureCount, dlCalls, dlResults, unit>>

\* const ffmpegPath = findExec("ffmpeg"); if (!ffmpegPath) return [];
FindFfmpeg ==
    /\ pc = "findFfmpeg"
    /\ \E host \in Hosts(Ffmpeg) :
          LET r == findExec(Ffmpeg, host)
          IN  /\ ffmpegPath' = r.path
              /\ events' = events \o r.evs
              /\ IF ~Truthy(r.path)
                 THEN Finish("noFfmpeg")
                 ELSE pc' = "parse" /\ ret' = ret
    /\ UNCHANGED <<input, notifyThrows, initialUrl, ytDlpPath, opts, defaultBaseDownloadsPath,
                   infoJson, videoInfo, i, successCount, failureCount, dlCalls, dlResults, unit>>

\* parseInputArguments(input), then APP.doShellScript("echo $HOME/Downloads").trim()
ParseInput ==
    /\ pc = "parse"
    /\ opts' = parseInputArguments(input)
    /\ defaultBaseDownloadsPath' = Trim(HomeDownloads)
    /\ events' = Append(events, ShellEvent(<<"echo $HOME/Downloads">>))
    /\ pc' = "fetch"
    /\ UNCHANGED <<input, notifyThrows, initialUrl, ytDlpPath, ffmpegPath, infoJson, videoInfo,
                   i, successCount, failureCount, dlCalls, dlResults, ret, unit>>

\* const videoInfo = getVideoOrPlaylistInfo(ytDlpPath, initialUrl, cookiesFromBrowser);
Fetch ==
    /\ pc = "fetch"
    /\ \E outcome \in MetaOutcomes :
          LET r == getVideoOrPlaylistInfo(ytDlpPath, initialUrl, opts.cookiesFromBrowser, outcome)
          IN  /\ infoJson' = outcome
              /\ videoInfo' = r.info
              /\ events' = events \o r.evs
    /\ pc' = "branch"
    /\ UNCHANGED <<input, notifyThrows, initialUrl, ytDlpPath, ffmpegPath, opts,
                   defaultBaseDownloadsPath, i, successCount, failureCount, dlCalls, dlResults,
                   ret, unit>>

\* the fallback branch: the warning, one download of initialUrl, return []
Fallback ==
    /\ pc = "branch"
    /\ IsFetchFailedTitle(videoInfo.title)
    /\ \E sh \in DownloadOutcomes :
          LET fallbackBaseDir == Or(opts.downloadDir, defaultBaseDownloadsPath)
              fallbackFileName == Or(opts.fileNameTemplate, DEFAULT_FILENAME_TEMPLATE_SINGLE)
          IN  \E fallbackEntry \in
                     {VideoEntry(initialUrl,
                                 IF Includes(videoInfo.title, <<"Failed">>)
                                 THEN UnknownVideo ELSE videoInfo.title)} :
              \E fallbackOutputTemplate \in {fallbackBaseDir \o <<"/">> \o fallbackFileName} :
              \E d \in {downloadVideoEntry(fallbackEntry, ytDlpPath, ffmpegPath,
                                          fallbackOutputTemplate, opts.downloadArchive,
                                          opts.cookiesFromBrowser, sh)} :
                 /\ events' = events
                       \o showErrorDialog(<<"InfoFetchError">>,
                                          <<"failed to fetch info.\ntitle: ">> \o videoInfo.title
                                              \o <<"\nURL: ">> \o initialUrl,
                                          "warning")
                       \o d.evs
                 /\ dlCalls' = Append(dlCalls, fallbackEntry)
                 /\ dlResults' = Append(dlResults,
                                        [sh |-> sh, status |-> d.status, ok |-> d.ok])
    /\ Finish("fallback")
    /\ UNCHANGED <<input, notifyThrows, initialUrl, ytDlpPath, ffmpegPath, opts,
                   defaultBaseDownloadsPath, infoJson, videoInfo, i, successCount,
                   failureCount, unit>>

\* mutant: the test without the length of entries
IsPlaylistRunIgnoringLength(info) == info.isPlaylist

\* videoInfo.isPlaylist && videoInfo.entries && videoInfo.entries.length > 0
IsPlaylistRun(info) == info.isPlaylist /\ Len(info.entries) > 0

\* the playlist branch up to the loop: the start notification and the counters
StartPlaylist ==
    /\ pc = "branch"
    /\ ~IsFetchFailedTitle(videoInfo.title)
    /\ IsPlaylistRun(videoInfo)
    /\ LET playlistFolderName == sanitizeFolderName(videoInfo.title)
           playlistParentDir == Or(opts.downloadDir, defaultBaseDownloadsPath)
       IN  events' = events
               \o showNotification(
                     <<"playlist DownloadStart">>,
                     <<"playlist [">> \o videoInfo.title \o <<"] (",
                         ToString(Len(videoInfo.entries)), " items) starting.">>,
                     <<"folder: ">> \o playlistFolderName \o <<" (in ">>
                         \o SplitPop(playlistParentDir, "/") \o <<")">>)
    /\ successCount' = 0
    /\ failureCount' = 0
    /\ i' = 0
    /\ pc' = "loop"
    /\ UNCHANGED <<input, notifyThrows, initialUrl, ytDlpPath, ffmpegPath, opts,
                   defaultBaseDownloadsPath, infoJson, videoInfo, dlCalls, dlResults, ret, unit>>

\* one iteration of for (let i = 0; i < videoInfo.entries.length; i++)
PlaylistItem ==
    /\ pc = "loop"
    /\ i < Len(videoInfo.entries)
    /\ \E sh \in DownloadOutcomes :
          LET entry == videoInfo.entries[i + 1]
              playlistFolderName == sanitizeFolderName(videoInfo.title)
              playlistParentDir == Or(opts.downloadDir, defaultBaseDownloadsPath)
              playlistFullBaseDir == playlistParentDir \o <<"/">> \o playlistFolderName
              itemFileNameTemplate ==
                  Or(opts.fileNameTemplate, DEFAULT_FILENAME_TEMPLATE_PLAYLIST_ITEM)
          IN  \E finalItemOutputTemplate \in
                     {playlistFullBaseDir \o <<"/">> \o itemFileNameTemplate} :
              \E d \in {downloadVideoEntry(entry, ytDlpPath, ffmpegPath,
                                          finalItemOutputTemplate, opts.downloadArchive,
                                          opts.cookiesFromBrowser, sh)} :
                 /\ events' = events \o d.evs
                 /\ dlCalls' = Append(dlCalls, entry)
                 /\ dlResults' = Append(dlResults,
                                        [sh |-> sh, status |-> d.status, ok |-> d.ok])
                 /\ successCount' = IF d.ok THEN successCount + 1 ELSE successCount
                 /\ failureCount' = IF d.ok THEN failureCount ELSE failureCount + 1
    /\ i' = i + 1
    /\ UNCHANGED <<pc, input, notifyThrows, initialUrl, ytDlpPath, ffmpegPath, opts,
                   defaultBaseDownloadsPath, infoJson, videoInfo, ret, unit>>

\* mutant: no completion notification when no item succeeded
PlaylistDoneSilentWhenAllFailed ==
    /\ pc = "loop"
    /\ ~(i < Len(videoInfo.entries))
    /\ events' = IF successCount = 0 THEN events
                 ELSE events
                      \o showNotification(
                            <<"playlist DownloadComplete">>,
                            <<"playlist [">> \o videoInfo.title \o <<"] done.\nsuccess: ",
                                ToString(successCount), ", failure: ", ToString(failureCount)>>,
                            <<"total: ", ToString(Len(videoInfo.entries))>>)
    /\ Finish("playlist")
    /\ UNCHANGED <<input, notifyThrows, initialUrl, ytDlpPath, ffmpegPath, opts,
                   defaultBaseDownloadsPath, infoJson, videoInfo, i, successCount,
                   failureCount, dlCalls, dlResults, unit>>

\* after the loop: the completion notification, return []
PlaylistDone ==
    /\ pc = "loop"
    /\ ~(i < Len(videoInfo.entries))
    /\ events' = events
           \o showNotification(
                 <<"playlist DownloadComplete">>,
                 <<"playlist [">> \o videoInfo.title \o <<"] done.\nsuccess: ",
                     ToString(successCount), ", failure: ", ToString(failureCount)>>,
                 <<"total: ", ToString(Len(videoInfo.entries))>>)
    /\ Finish("playlist")
    /\ UNCHANGED <<input, notifyThrows, initialUrl, ytDlpPath, ffmpegPath, opts,
                   defaultBaseDownloadsPath, infoJson, videoInfo, i, successCount,
                   failureCount, dlCalls, dlResults, unit>>

\* the single-video branch: one download of videoInfo.webpage_url, return []
SingleVideo ==
    /\ pc = "branch"
    /\ ~IsFetchFailedTitle(videoInfo.title)
    /\ ~IsPlaylistRun(videoInfo)
    /\ \E sh \in DownloadOutcomes :
          LET singleVideoEntry == VideoEntry(videoInfo.webpage_url, videoInfo.title)
              singleVideoBaseDir == Or(opts.downloadDir, defaultBaseDownloadsPath)
              singleVideoFileNameTemplate ==
                  Or(opts.fileNameTemplate, DEFAULT_FILENAME_TEMPLATE_SINGLE)
              finalSingleOutputTemplate ==
                  singleVideoBaseDir \o <<"/">> \o singleVideoFileNameTemplate
              d == downloadVideoEntry(singleVideoEntry, ytDlpPath, ffmpegPath,
                                      finalSingleOutputTemplate, opts.downloadArchive,
                                      opts.cookiesFromBrowser, sh)
          IN  /\ events' = events \o d.evs
              /\ dlCalls' = Append(dlCalls, singleVideoEntry)
              /\ dlResults' = Append(dlResults, [sh |-> sh, status |-> d.status, ok |-> d.ok])
    /\ Finish("single")
    /\ UNCHANGED <<input, notifyThrows, initialUrl, ytDlpPath, ffmpegPath, opts,
                   defaultBaseDownloadsPath, infoJson, videoInfo, i, successCount,
                   failureCount, unit>>

Next ==
    \/ GetUrl
    \/ FindYtDlp
    \/ FindFfmpeg
    \/ ParseInput
    \/ Fetch
    \/ Fallback
    \/ StartPlaylist
    \/ PlaylistItem
    \/ PlaylistDone
    \/ SingleVideo

Spec == Init /\ [][Next]_vars

\* run is synchronous, straight-line code driven by one thread: as long as
\* every external call returns, the statement control stands at completes and
\* control moves on, to another statement or to the next turn of the loop
ControlPoints ==
    {"start", "findYtDlp", "findFfmpeg", "parse", "fetch", "branch", "loop", "done"}

Advance == pc # "done" /\ pc' \in ControlPoints /\ i' \in 0..MaxEntries

SpecLive == Init /\ [][Next]_vars /\ WF_<<pc, i>>(Advance)

----------------------------------------------------------------------------
(* Unit specifications: one function applied to every input within bounds  *)

\* the longest folder name tried
MaxNameLen == 3

\* the longest downloader output tried, in tokens
MaxOutputLen == 4

UnitInit ==
    /\ pc = "idle"
    /\ input = <<>>
    /\ notifyThrows = FALSE
    /\ initialUrl = Null
    /\ ytDlpPath = Null
    /\ ffmpegPath = Null
    /\ opts = NoOptions
    /\ defaultBaseDownloadsPath = Null
    /\ infoJson = NoMeta
    /\ videoInfo = NoInfo
    /\ i = 0
    /\ successCount = 0
    /\ failureCount = 0
    /\ events = <<>>
    /\ dlCalls = <<>>
    /\ dlResults = <<>>
    /\ ret = Null
    /\ unit = NoUnit

\* folder names: the forbidden characters, white space, ordinary text
NameAlphabet == ForbiddenChars \cup Whitespace \cup {"a"}

SanitizeInputs == SeqsUpTo(NameAlphabet, MaxNameLen) \cup {Null, NotAString}

ApplySanitize ==
    /\ pc = "idle"
    /\ unit = NoUnit
    /\ \E folderName \in SanitizeInputs :
          unit' = [fn |-> "sanitizeFolderName", folderName |-> folderName,
                   result |-> sanitizeFolderName(folderName)]
    /\ UNCHANGED runVars

SpecSanitize == UnitInit /\ [][ApplySanitize]_vars

\* downloader output: the two tags of the already-downloaded line, a path
\* separator, white space, a file name, and the words of "Unsupported URL"
OutputAlphabet ==
    {DownloadTag, AlreadyTag, "/", " ", "\n", "f.mp4", "Unsupported", "unsupported", "URL"}

UnitOutputs == SeqsUpTo(OutputAlphabet, MaxOutputLen)

UnitShellOutcomes ==
    {ShellReturns(o) : o \in UnitOutputs}
    \cup {ShellThrows(o, n) : o \in UnitOutputs, n \in {0, 2}}

UnitEntries == {VideoEntry(ItemUrl, <<"Item">>), VideoEntry(Null, <<"Item">>)}

UnitYtDlpPath == commonPaths[1] \o <<"/">> \o YtDlp
UnitFfmpegPath == commonPaths[1] \o <<"/">> \o Ffmpeg
UnitTemplate == Trim(HomeDownloads) \o <<"/">> \o DEFAULT_FILENAME_TEMPLATE_SINGLE

ApplyDownload ==
    /\ pc = "idle"
    /\ unit = NoUnit
    /\ \E videoEntry \in UnitEntries, sh \in UnitShellOutcomes :
          unit' = [fn |-> "downloadVideoEntry", videoEntry |-> videoEntry, sh |-> sh,
                   result |-> downloadVideoEntry(videoEntry, UnitYtDlpPath, UnitFfmpegPath,
                                                 UnitTemplate, Null, Null, sh)]
    /\ UNCHANGED runVars

SpecDownload == UnitInit /\ [][ApplyDownload]_vars

----------------------------------------------------------------------------
(* Claims about downloadVideoEntry, under SpecDownload                     *)

\* a download was attempted: the entry has a URL and the command has run
Attempted == unit.fn = "downloadVideoEntry" /\ Truthy(unit.videoEntry.url)

AttemptExitCode == executeShellCommand(unit.sh).exitCode
AttemptOutput == unit.sh.text

\* the output contains "[download] <name> has already been downloaded", <name> on one line
MarkerPairs(out) ==
    {pq \in (1..Len(out)) \X (1..Len(out)) :
        /\ pq[1] < pq[2]
        /\ out[pq[1]] = "[download] "
        /\ out[pq[2]] = " has already been downloaded"
        /\ \A r \in (pq[1] + 1)..(pq[2] - 1) : out[r] # "\n"}

HasMarker(out) == MarkerPairs(out) # {}

\* <name>: the text between the first such "[download] " and the nearest end of the marker
MarkerName(out) ==
    LET p == CHOOSE x \in {pq[1] : pq \in MarkerPairs(out)} :
                 \A pq \in MarkerPairs(out) : x <= pq[1]
        q == CHOOSE y \in {pq[2] : pq \in {z \in MarkerPairs(out) : z[1] = p}} :
                 \A pq \in {z \in MarkerPairs(out) : z[1] = p} : y <= pq[2]
    IN  SubSeq(out, p + 1, q - 1)

\* the last "/"-separated segment
LastSegment(name) ==
    LET slashes == {k \in 1..Len(name) : name[k] = "/"}
    IN  IF slashes = {} THEN name
        ELSE SubSeq(name, (CHOOSE k \in slashes : \A m \in slashes : m <= k) + 1, Len(name))

\* the output contains "Unsupported URL" in some letter case
ContainsUnsupportedUrl(out) ==
    \E k \in 1..(Len(out) - 2) :
        /\ out[k] \in {"Unsupported", "unsupported", "UNSUPPORTED"}
        /\ out[k + 1] = " "
        /\ out[k + 2] \in {"URL", "url", "Url"}

LastEvent(evs) == evs[Len(evs)]

EndsWith(s, t) == Len(s) >= Len(t) /\ SubSeq(s, Len(s) - Len(t) + 1, Len(s)) = t

\* C2 as stated: with exit code 0 and the already-downloaded marker in the
\* output, the item is AlreadyDownloaded, the detail is the trimmed basename
\* of <name>, and the attempt returns success.
C2_AsStated ==
    (Attempted /\ AttemptExitCode = 0 /\ HasMarker(AttemptOutput)) =>
        /\ unit.result.status = "AlreadyDownloaded"
        /\ unit.result.detail = Trim(LastSegment(MarkerName(AttemptOutput)))
        /\ unit.result.ok

\* C2 amended: with exit code 0 and the already-downloaded marker in the
\* output, the item is AlreadyDownloaded and the attempt returns success; the
\* reported detail is the trimmed basename of <name> when that is not empty
\* and the item's title when it is empty; the success notification carries it.
C2_AlreadyDownloaded ==
    (Attempted /\ AttemptExitCode = 0 /\ HasMarker(AttemptOutput)) =>
        LET base == Trim(LastSegment(MarkerName(AttemptOutput)))
            detail == IF base # <<>> THEN base ELSE unit.videoEntry.title
        IN  /\ unit.result.status = "AlreadyDownloaded"
            /\ unit.result.detail = detail
            /\ unit.result.ok
            /\ LastEvent(unit.result.evs) =
                   NotificationEvent(<<"yt-dlp DownloadSuccess">>,
                                     <<"[">> \o detail \o <<"] is already downloaded.">>, Null)

C2_Witness ==
    /\ Attempted
    /\ AttemptExitCode = 0
    /\ AttemptOutput = <<"[download] ", "/", "f.mp4", " has already been downloaded">>
    /\ unit.result.status = "AlreadyDownloaded"
    /\ unit.result.detail = <<"f.mp4">>
    /\ unit.result.ok

\* C3: with exit code 0 the outcome is never Unsupported or Failed; with no
\* already-downloaded marker in the output it is Success with the item's
\* title as detail, whatever else the output contains, and the attempt
\* returns success.
C3_Success ==
    (Attempted /\ AttemptExitCode = 0) =>
        /\ unit.result.status \notin {"Unsupported", "Failed"}
        /\ ~HasMarker(AttemptOutput) =>
              /\ unit.result.status = "Success"
              /\ unit.result.detail = unit.videoEntry.title
              /\ unit.result.ok
              /\ LastEvent(unit.result.evs) =
                     NotificationEvent(<<"yt-dlp DownloadSuccess">>,
                                       <<"[">> \o unit.videoEntry.title
                                           \o <<"] download completed.">>, Null)

C3_Witness ==
    /\ Attempted
    /\ AttemptExitCode = 0
    /\ ~HasMarker(AttemptOutput)
    /\ ContainsUnsupportedUrl(AttemptOutput)
    /\ unit.result.status = "Success"

\* C4: with a non-zero exit code the outcome is never Success or
\* AlreadyDownloaded and the attempt returns failure; it is Unsupported when
\* the output contains "Unsupported URL" in any letter case, and otherwise
\* Failed with the full raw output as detail, shown at the end of the dialog.
C4_Failure ==
    (Attempted /\ AttemptExitCode # 0) =>
        /\ unit.result.status \notin {"Success", "AlreadyDownloaded"}
        /\ ~unit.result.ok
        /\ ContainsUnsupportedUrl(AttemptOutput) => unit.result.status = "Unsupported"
        /\ ~ContainsUnsupportedUrl(AttemptOutput) =>
              /\ unit.result.status = "Failed"
              /\ unit.result.detail = AttemptOutput
              /\ LastEvent(unit.result.evs).type = "alert"
              /\ EndsWith(LastEvent(unit.result.evs).message,
                          <<"\n\nerror output:\n">> \o AttemptOutput)

C4_Witness ==
    /\ Attempted
    /\ AttemptExitCode # 0
    /\ AttemptOutput = <<"[download] ", "unsupported", " ", "URL">>
    /\ unit.result.status = "Unsupported"
    /\ ~unit.result.ok

----------------------------------------------------------------------------
(* Claims about sanitizeFolderName, under SpecSanitize                     *)

Sanitized == unit.fn = "sanitizeFolderName"

\* C5: for every input, a string or not, the result is not empty and holds
\* none of / \ : ; * ? " < > |; it is Untitled_Folder when the input is not
\* a string or is empty or holds white space only.
C5_Sanitize ==
    Sanitized =>
        /\ unit.result # <<>>
        /\ unit.result # Null
        /\ \A k \in 1..Len(unit.result) :
              unit.result[k] \notin {"/", "\\", ":", ";", "*", "?", "\"", "<", ">", "|"}
        /\ (\/ unit.folderName \in {Null, NotAString}
            \/ \A k \in 1..Len(unit.folderName) : unit.folderName[k] \in {" ", "\n"})
              => unit.result = <<"Untitled_Folder">>

C5_Witness ==
    /\ Sanitized
    /\ unit.folderName = <<" ", ";", "|">>
    /\ unit.result = <<"_", "_">>

----------------------------------------------------------------------------
(* Claims about run, under Spec                                            *)

\* the text the metadata command returned
MetaDoc == infoJson.sh.text

\* the metadata command exited 0 and printed a collection of N >= 1 member entries
CollectionResponse ==
    /\ ~infoJson.exception
    /\ ~infoJson.sh.thrown
    /\ MetaDoc.kind = "object"
    /\ MetaDoc._type = "playlist" \/ MetaDoc.hasEntries
    /\ Len(MetaDoc.entries) >= 1
    /\ \A k \in 1..Len(MetaDoc.entries) : ~MetaDoc.entries[k].isNull

\* the yt-dlp invocations in a log: metadata ("-J") and download ("-f bv+ba/b")
MetadataCommands(evs) ==
    SelectSeq(evs, LAMBDA e : e.type = "shell" /\ "-J" \in Tokens(e.message))

DownloadCommands(evs) ==
    SelectSeq(evs, LAMBDA e : e.type = "shell" /\ "-f bv+ba/b" \in Tokens(e.message))

AlertsTitled(evs, title) ==
    SelectSeq(evs, LAMBDA e : e.type = "alert" /\ e.title = title)

\* the start notification of a playlist run, or its replacement alert
PlaylistNotifications ==
    SelectSeq(events,
              LAMBDA e : \/ e.title = <<"playlist DownloadStart">>
                         \/ /\ e.type = "alert"
                            /\ Includes(e.message, <<"Title: ", "playlist DownloadStart">>))

\* C1 as stated: when run has ended on a collection response with N >= 1
\* member entries, downloadVideoEntry was called exactly N times, the k-th
\* call for the k-th entry, and successCount + failureCount = N.
C1_AsStated ==
    (pc = "done" /\ CollectionResponse) =>
        /\ Len(dlCalls) = Len(MetaDoc.entries)
        /\ \A k \in 1..Len(MetaDoc.entries) :
              k <= Len(dlCalls) => dlCalls[k].url = MetaDoc.entries[k].url
        /\ successCount + failureCount = Len(MetaDoc.entries)

\* the fetcher went through one of its failure paths and returned its label
FetcherFailed ==
    /\ videoInfo.title \in {FetchFailedLabel, ParseFailedLabel, FetchErrorLabel}
    /\ \/ infoJson.exception
       \/ infoJson.sh.thrown
       \/ MetaDoc.kind # "object"
       \/ \E k \in 1..Len(MetaDoc.entries) : MetaDoc.entries[k].isNull

\* C6 as stated: when run has ended and the fetcher returned one of its three
\* failure labels, a warning was shown and exactly one download was made, of
\* the browser URL with the single-item template, with no playlist processing.
C6_AsStated ==
    (pc = "done" /\ FetcherFailed) =>
        /\ Len(AlertsTitled(events, <<"InfoFetchError">>)) = 1
        /\ Len(dlCalls) = 1
        /\ dlCalls[1].url = initialUrl
        /\ DownloadCommands(events) =
              << ShellEvent(
                    DownloadCommand(initialUrl, ytDlpPath, ffmpegPath,
                                    Or(opts.downloadDir, defaultBaseDownloadsPath) \o <<"/">>
                                        \o Or(opts.fileNameTemplate, <<"%(title)s.%(ext)s">>),
                                    opts.downloadArchive, opts.cookiesFromBrowser)
                    \o <<" 2>&1">>) >>
        /\ \A k \in 1..Len(events) :
              events[k].title \notin {<<"playlist DownloadStart">>, <<"playlist DownloadComplete">>}

\* C7 as stated: when yt-dlp cannot be resolved run shows an alert and makes
\* no metadata or download invocation; when only ffmpeg cannot be resolved
\* run goes on to the metadata fetch and a download.
C7_AsStated ==
    /\ (pc = "done" /\ Truthy(initialUrl) /\ ~Truthy(ytDlpPath)) =>
          /\ Len(AlertsTitled(events, <<"yt-dlp", " ExecError">>)) = 1
          /\ MetadataCommands(events) = <<>>
          /\ DownloadCommands(events) = <<>>
          /\ dlCalls = <<>>
    /\ (pc = "done" /\ Truthy(ytDlpPath) /\ ~Truthy(ffmpegPath)) =>
          /\ Len(MetadataCommands(events)) = 1
          /\ Len(dlCalls) >= 1

\* C8: whenever run has returned, on any path and after any download outcome,
\* the value it returned is the empty array.
C8_ReturnsEmpty ==
    /\ pc = "done" => ret = <<>>
    /\ ret \in {Null, <<>>}

C8_Witness ==
    /\ pc = "done"
    /\ ret = <<>>
    /\ successCount >= 1
    /\ failureCount >= 1

\* C9: when the browser URL is unavailable (no frontmost application name, an
\* application that is no supported browser, an empty tab) run has ended at
\* once: nothing but one console line was produced, no notification, no
\* dialog, no executable lookup, no yt-dlp invocation.
C9_SilentAbort ==
    (pc \notin {"start", "idle"} /\ ~Truthy(initialUrl)) =>
        /\ pc = "done"
        /\ Len(events) = 1
        /\ events[1].type = "log"
        /\ events[1].message \in
              { <<"no frontmost application name">>,
                <<"Safari", ": no URL (empty tab, error)">>,
                <<"Google Chrome", ": no URL (empty tab, error)">>,
                <<"unsupported browser: ", "Finder">> }
        /\ ytDlpPath = Null
        /\ ffmpegPath = Null
        /\ dlCalls = <<>>

C9_Witness ==
    /\ pc = "done"
    /\ ~Truthy(initialUrl)
    /\ events = <<LogEvent(<<"unsupported browser: ", "Finder">>)>>

\* C10: in the playlist loop, the step for an item without a URL shows
\* exactly one warning dialog and nothing else (no start notification, no
\* yt-dlp invocation), adds one to failureCount and nothing to successCount,
\* and moves on to the next item; a playlist run that has ended has called
\* downloadVideoEntry for every item.
C10_MissingUrlItem ==
    /\ [][ (/\ pc = "loop"
            /\ i < Len(videoInfo.entries)
            /\ ~Truthy(videoInfo.entries[i + 1].url))
           => (/\ events' = Append(events,
                                   AlertEvent(<<"DownloadError">>,
                                              <<"URL of [">> \o videoInfo.entries[i + 1].title
                                                  \o <<"] not found. Skipping.">>,
                                              "warning"))
               /\ failureCount' = failureCount + 1
               /\ successCount' = successCount
               /\ Len(dlCalls') = Len(dlCalls) + 1
               /\ i' = i + 1
               /\ pc' = "loop") ]_vars
    /\ [](pc = "done" /\ Len(PlaylistNotifications) >= 1
            => Len(dlCalls) = Len(videoInfo.entries))

C10_Witness ==
    /\ pc = "done"
    /\ Len(videoInfo.entries) = 2
    /\ ~Truthy(videoInfo.entries[1].url)
    /\ Truthy(videoInfo.entries[2].url)
    /\ failureCount = 1
    /\ successCount = 1
    /\ Len(DownloadCommands(events)) = 1

----------------------------------------------------------------------------
(* Claims about the playlist loop and the fetcher's result, under Spec     *)

\* run is in, or has ended after, the playlist branch
InBatchRun ==
    /\ pc \in {"loop", "done"}
    /\ ~IsFetchFailedTitle(videoInfo.title)
    /\ videoInfo.isPlaylist
    /\ Len(videoInfo.entries) > 0

\* how many of the recorded calls ended in one of the given branches
CountStatus(results, statuses) ==
    Cardinality({k \in 1..Len(results) : results[k].status \in statuses})

\* C11: in a playlist run successCount is the number of items so far whose
\* outcome is Success or AlreadyDownloaded and failureCount the number of all
\* other items (Unsupported, Failed, missing URL); every step of the loop
\* adds exactly one to exactly one of the two counters.
C11_Counters ==
    /\ [](InBatchRun =>
            /\ successCount = CountStatus(dlResults, {"Success", "AlreadyDownloaded"})
            /\ failureCount = CountStatus(dlResults, {"Unsupported", "Failed", "MissingUrl"})
            /\ successCount + failureCount = Len(dlResults))
    /\ [][ (pc = "loop" /\ i' = i + 1)
           => \/ successCount' = successCount + 1 /\ failureCount' = failureCount
              \/ successCount' = successCount /\ failureCount' = failureCount + 1 ]_vars

C11_Witness ==
    /\ pc = "done"
    /\ InBatchRun
    /\ Len(dlResults) = 2
    /\ dlResults[1].status = "MissingUrl"
    /\ dlResults[2].status = "AlreadyDownloaded"
    /\ successCount = 1
    /\ failureCount = 1

\* the metadata command exited 0 and its output was parsed and processed
\* without an exception: none of the fetcher's failure paths was taken
FetchSucceeded ==
    /\ pc \in {"branch", "loop", "done"}
    /\ Truthy(ffmpegPath)
    /\ ~infoJson.exception
    /\ ~infoJson.sh.thrown
    /\ MetaDoc.kind = "object"
    /\ \A k \in 1..Len(MetaDoc.entries) : ~MetaDoc.entries[k].isNull

WatchUrl(id) == <<"https://www.youtube.com/watch?v=">> \o id

\* C13 as stated: after a successful fetch of a collection, an item whose
\* member entry has no URL but has an id carries the watch URL of that id,
\* and its download is not skipped for a missing URL.
C13_AsStated ==
    (FetchSucceeded /\ videoInfo.isPlaylist) =>
        \A k \in 1..Len(MetaDoc.entries) :
            (~Truthy(MetaDoc.entries[k].url) /\ Truthy(MetaDoc.entries[k].id)) =>
                /\ k <= Len(videoInfo.entries)
                /\ videoInfo.entries[k].url = WatchUrl(MetaDoc.entries[k].id)
                /\ (InBatchRun /\ k <= Len(dlResults)) => dlResults[k].status # "MissingUrl"

----------------------------------------------------------------------------
(* Claims about the output path template, under Spec                       *)

\* the value that follows the last flag token of the input that is not itself
\* the value of a preceding flag; Null when there is none
FlagTokens == {<<"-d">>, <<"-f">>, <<"-a">>, <<"-c">>}

SuppliedValue(flag) ==
    IF input = NotAString THEN Null
    ELSE LET ks == {k \in 1..(Len(input) - 1) :
                       /\ input[k] = flag
                       /\ (k = 1 \/ input[k - 1] \notin FlagTokens)}
         IN  IF ks = {} THEN Null
             ELSE input[(CHOOSE k \in ks : \A m \in ks : m <= k) + 1]

\* the argument of -o in a download command line
OutputTemplateOf(command) ==
    LET p == CHOOSE k \in 1..Len(command) : command[k] = "-o "
        q == CHOOSE k \in (p + 2)..Len(command) :
                 /\ command[k] = "\""
                 /\ \A m \in (p + 2)..(k - 1) : command[m] # "\""
    IN  SubSeq(command, p + 2, q - 1)

HomeDownloadsDir == <<"/", "Users", "/", "me", "/", "Downloads">>

ExpectedBaseDir ==
    IF SuppliedValue(<<"-d">>) = Null THEN HomeDownloadsDir ELSE SuppliedValue(<<"-d">>)

ExpectedSingleTemplate ==
    ExpectedBaseDir \o <<"/">>
        \o (IF SuppliedValue(<<"-f">>) = Null
            THEN <<"%(title)s.%(ext)s">> ELSE SuppliedValue(<<"-f">>))

ExpectedItemTemplate ==
    ExpectedBaseDir \o <<"/">> \o sanitizeFolderName(videoInfo.title) \o <<"/">>
        \o (IF SuppliedValue(<<"-f">>) = Null
            THEN <<"%(playlist_index& - |)s%(title)s.%(ext)s">> ELSE SuppliedValue(<<"-f">>))

----------------------------------------------------------------------------
(* Claims about repeated downloads, under Spec                             *)

\* the download command of call k exited 0, with or without the marker
CleanExit(k) == ~dlResults[k].sh.thrown

\* C15: when the same item is processed twice and the download command exits
\* 0 without the already-downloaded marker the first time and exits 0 with
\* the marker the second time, the first outcome is Success and the second
\* AlreadyDownloaded, both calls return true, and in a playlist run both are
\* counted in successCount.
C15_Idempotence ==
    \A j, k \in 1..Len(dlResults) :
        (/\ j < k
         /\ dlCalls[j] = dlCalls[k]
         /\ Truthy(dlCalls[j].url)
         /\ CleanExit(j) /\ ~HasMarker(dlResults[j].sh.text)
         /\ CleanExit(k) /\ HasMarker(dlResults[k].sh.text))
        => /\ dlResults[j].status = "Success"
           /\ dlResults[k].status = "AlreadyDownloaded"
           /\ dlResults[j].ok /\ dlResults[k].ok
           /\ InBatchRun => successCount >= 2

C15_Witness ==
    /\ pc = "done"
    /\ InBatchRun
    /\ Len(dlCalls) = 2
    /\ dlCalls[1] = dlCalls[2]
    /\ Truthy(dlCalls[1].url)
    /\ dlResults[1].sh = ShellReturns(<<"[download] ", "Destination: ", "f.mp4", "\n">>)
    /\ dlResults[2].sh =
          ShellReturns(<<"[download] ", "/", "d", "/", "f.mp4", " has already been downloaded">>)
    /\ dlResults[1].status = "Success"
    /\ dlResults[2].status = "AlreadyDownloaded"
    /\ successCount = 2
    /\ failureCount = 0

----------------------------------------------------------------------------
(* Claims about the order and number of external effects, under Spec       *)

\* a notification of the given title, or the alert shown in its place when
\* the notification cannot be displayed
IsNote(e, title) ==
    \/ e.type = "notification" /\ e.title = title
    \/ /\ e.type = "alert"
       /\ e.title = <<"NotificationDisplayError">>
       /\ Includes(e.message, <<"Title: ">> \o title)

\* what an event is in the life of one item: its start notification, its
\* downloader invocation, the report of its outcome, the warning that skips
\* it; "meta" is the metadata invocation, "other" everything else (console
\* lines, executable lookups, the playlist notifications, the fetch warning)
Phase(e) ==
    CASE e.type = "shell" /\ "-J" \in Tokens(e.message) -> "meta"
      [] e.type = "shell" /\ "-f bv+ba/b" \in Tokens(e.message) -> "invoke"
      [] IsNote(e, <<"yt-dlp DownloadStart">>) -> "start"
      [] IsNote(e, <<"yt-dlp DownloadSuccess">>) \/ IsNote(e, <<"yt-dlp Info">>) -> "report"
      [] e.type = "alert" /\ StartsWith(e.title, <<"yt-dlp/shell error (code: ">>) -> "report"
      [] e.type = "alert" /\ e.title = <<"DownloadError">> -> "skip"
      [] OTHER -> "other"

\* the phases of the timeline, in order
PhaseLine ==
    LET phases == [k \in 1..Len(events) |-> Phase(events[k])]
    IN  SelectSeq(phases, LAMBDA ph : ph # "other")

\* the calls that had a URL, in order
Dispatched == SelectSeq(dlCalls, LAMBDA c : Truthy(c.url))

\* the last argument of a download command line: the quoted URL
TargetOf(command) == SubSeq(command, Len(command) - 2, Len(command) - 2)

\* C16: in the log of external effects, console lines and the like left out
\* (see Phase), the metadata invocation comes before
\* every event of every item; every start notification is followed at once
\* by the downloader invocation of the same item and that by the report of
\* its outcome, so an item's report precedes the next item's start; and the
\* invocations are those of the dispatched items, in index order.
C16_TotalOrder ==
    LET P == PhaseLine
        commands == DownloadCommands(events)
        dispatched == Dispatched
    IN  /\ \A k \in 1..Len(P) :
              /\ P[k] = "meta" => k = 1
              /\ P[k] # "meta" => P[1] = "meta"
              /\ P[k] = "start" =>
                    /\ k + 2 <= Len(P)
                    /\ P[k + 1] = "invoke"
                    /\ P[k + 2] = "report"
              /\ P[k] = "invoke" => k > 1 /\ P[k - 1] = "start"
              /\ P[k] = "report" => k > 1 /\ P[k - 1] = "invoke"
        /\ Len(commands) = Len(dispatched)
        /\ \A k \in 1..Len(dispatched) :
              k <= Len(commands) => TargetOf(commands[k].message) = dispatched[k].url

C16_Witness ==
    /\ pc = "done"
    /\ InBatchRun
    /\ Len(dlCalls) = 2
    /\ Truthy(dlCalls[1].url)
    /\ Truthy(dlCalls[2].url)
    /\ dlCalls[1].title # dlCalls[2].title
    /\ PhaseLine = <<"meta", "start", "invoke", "report", "start", "invoke", "report">>

\* the batch notifications in the log
BatchStarts == SelectSeq(events, LAMBDA e : IsNote(e, <<"playlist DownloadStart">>))
BatchCompletions == SelectSeq(events, LAMBDA e : IsNote(e, <<"playlist DownloadComplete">>))

\* the index of the first event of an item in the log, 0 when there is none
FirstItemEvent ==
    LET ks == {k \in 1..Len(events) : Phase(events[k]) \in {"start", "invoke", "report", "skip"}}
    IN  IF ks = {} THEN 0 ELSE CHOOSE k \in ks : \A m \in ks : k <= m

OutcomeReports == SelectSeq(events, LAMBDA e : Phase(e) = "report")

\* C18: in every state of a run the metadata command has been run at most
\* once; the download command has been run exactly once for every call that
\* had a URL and never for another, with as many outcome reports as
\* commands; and the calls are at most one per entry in a playlist run and at
\* most one on the single-video and fallback paths.  A step of the loop adds
\* at most one download command, also when the outcome is Unsupported or
\* Failed.
C18_NoRetries ==
    /\ [](/\ Len(MetadataCommands(events)) <= 1
          /\ Len(DownloadCommands(events)) = Len(Dispatched)
          /\ Len(OutcomeReports) = Len(DownloadCommands(events))
          /\ Len(dlCalls) <= (IF InBatchRun THEN Len(videoInfo.entries) ELSE 1)
          /\ InBatchRun => Len(dlCalls) = i)
    /\ [][ /\ Len(DownloadCommands(events')) <= Len(DownloadCommands(events)) + 1
           /\ Len(MetadataCommands(events')) <= Len(MetadataCommands(events)) + 1
           /\ Len(dlCalls') <= Len(dlCalls) + 1 ]_vars

C18_Witness ==
    /\ pc = "done"
    /\ InBatchRun
    /\ Len(dlResults) = 2
    /\ dlResults[1].status = "Failed"
    /\ dlResults[2].status = "Unsupported"
    /\ Len(DownloadCommands(events)) = 2
    /\ Len(OutcomeReports) = 2
    /\ Len(MetadataCommands(events)) = 1

----------------------------------------------------------------------------
(* Claims about the fetcher's result, under Spec                           *)

\* getVideoOrPlaylistInfo has returned
Fetched == pc \in {"branch", "loop", "done"} /\ Len(MetadataCommands(events)) = 1

\* C19 as stated: the fetcher returns for every outcome of the metadata
\* command; a thrown command or empty output gives the label of a failed
\* fetch, exit 0 with text JSON.parse rejects the label of a failed parse, an
\* exception outside these the error label; and whenever a failure label is
\* returned after a failure, isPlaylist is false, entries is empty and
\* webpage_url is the URL the fetcher was called with.
C19_AsStated ==
    Fetched =>
        /\ infoJson.exception => videoInfo.title = FetchErrorLabel
        /\ (~infoJson.exception /\ (infoJson.sh.thrown \/ MetaDoc.kind = "empty"))
              => videoInfo.title = FetchFailedLabel
        /\ (~infoJson.exception /\ ~infoJson.sh.thrown /\ MetaDoc.kind = "malformed")
              => videoInfo.title = ParseFailedLabel
        /\ FetcherFailed =>
              /\ ~videoInfo.isPlaylist
              /\ videoInfo.entries = <<>>
              /\ videoInfo.webpage_url = initialUrl

\* C20 as stated: after a successful fetch of an object that is no playlist,
\* webpage_url is the object's webpage_url when it has one and the URL the
\* fetcher was called with otherwise; the single-video branch then calls
\* downloadVideoEntry with a URL and shows no missing-URL warning.
C20_AsStated ==
    (FetchSucceeded /\ ~videoInfo.isPlaylist) =>
        /\ videoInfo.webpage_url =
              (IF Truthy(MetaDoc.webpage_url) THEN MetaDoc.webpage_url ELSE initialUrl)
        /\ (pc = "done" /\ ~IsFetchFailedTitle(videoInfo.title)) =>
              /\ Len(dlCalls) = 1
              /\ Truthy(dlCalls[1].url)
              /\ AlertsTitled(events, <<"DownloadError">>) = <<>>

----------------------------------------------------------------------------
(* Claims about the download command line, under Spec                      *)

\* `"${x}"`, written out
InQuotes(x) == <<"\"">> \o x \o <<"\"">>

\* the command line the claim describes for a target URL and an output
\* template, with the archive and cookie flags present exactly when the
\* input supplies a -a and a -c value
ExpectedCommandLine(url, template) ==
    InQuotes(ytDlpPath)
        \o <<" ", "--ffmpeg-location ">> \o InQuotes(ffmpegPath)
        \o <<" ", "-S codec:avc:aac,res:1080,fps:60,hdr:sdr">>
        \o <<" ", "-f bv+ba/b">>
        \o <<" ", "-o ">> \o InQuotes(template)
        \o <<" ", "--ppa \"Merger+ffmpeg_o1:-map_metadata -1\"">>
        \o (IF SuppliedValue(<<"-a">>) = Null THEN <<>>
            ELSE <<" ", "--download-archive ">> \o InQuotes(SuppliedValue(<<"-a">>)))
        \o (IF SuppliedValue(<<"-c">>) = Null THEN <<>>
            ELSE <<" ", "--cookies-from-browser ">> \o InQuotes(SuppliedValue(<<"-c">>)))
        \o <<" ">> \o InQuotes(url)
        \o <<" 2>&1">>

\* C21: every download command run so far is, token for token, the yt-dlp
\* path, --ffmpeg-location with the ffmpeg path, the -S expression, the -f
\* selector, -o with the output template, the --ppa directive, then
\* --download-archive exactly when the input supplies an archive path, then
\* --cookies-from-browser exactly when it supplies a browser, and the URL of
\* the dispatched item as the last argument.
C21_CommandLine ==
    LET commands == DownloadCommands(events)
        dispatched == Dispatched
    IN  /\ Len(commands) = Len(dispatched)
        /\ \A k \in 1..Len(commands) :
              k <= Len(dispatched) =>
                  commands[k].message =
                      ExpectedCommandLine(dispatched[k].url,
                                          OutputTemplateOf(commands[k].message))

C21_Witness ==
    /\ pc = "done"
    /\ input = << <<"--verbose">>, <<"-a">>, <<"archive.txt">>, <<"-d">> >>
    /\ Len(DownloadCommands(events)) = 1
    /\ DownloadCommands(events)[1].message =
          << "\"", "/opt/homebrew/bin", "/", "yt-dlp", "\"", " ",
             "--ffmpeg-location ", "\"", "/opt/homebrew/bin", "/", "ffmpeg", "\"", " ",
             "-S codec:avc:aac,res:1080,fps:60,hdr:sdr", " ",
             "-f bv+ba/b", " ",
             "-o ", "\"", "/", "Users", "/", "me", "/", "Downloads", "/",
                 "%(title)s.%(ext)s", "\"", " ",
             "--ppa \"Merger+ffmpeg_o1:-map_metadata -1\"", " ",
             "--download-archive ", "\"", "archive.txt", "\"", " ",
             "\"", "https://site/canonical", "\"", " 2>&1" >>

----------------------------------------------------------------------------
(* Claims about the start notification and the fallback, under Spec        *)

\* the start notifications of the items, in order (the alert that replaces
\* one carries its message after "\nMessage: ")
ItemStarts == SelectSeq(events, LAMBDA e : IsNote(e, <<"yt-dlp DownloadStart">>))

\* `プレイリスト「${playlist_title}」より\n`, as a start message spells it
PlaylistPrefix(title) == <<"from playlist [">> \o title \o <<"]\n">>

\* C22 as stated: in a playlist run the start notification of every
\* dispatched item has a message that begins with the playlist's title as a
\* prefix; on the single-video and fallback paths the message has no such
\* prefix.
C22_AsStated ==
    \A k \in 1..Len(ItemStarts) :
        IF InBatchRun
        THEN Includes(ItemStarts[k].message, PlaylistPrefix(videoInfo.title))
        ELSE ~Includes(ItemStarts[k].message, <<"from playlist [">>)

\* C23 as stated: the warning of a failed fetch is shown, and the browser URL
\* downloaded under the title of an unknown video, only after the fetcher
\* went through one of its failure paths; after a successful fetch run shows
\* no such warning and every call of downloadVideoEntry carries a title of
\* the metadata (the unit's own title, or an entry's).
C23_AsStated ==
    (pc = "done" /\ FetchSucceeded) =>
        /\ AlertsTitled(events, <<"InfoFetchError">>) = <<>>
        /\ \A k \in 1..Len(dlCalls) :
              /\ dlCalls[k].title # UnknownVideo
              /\ \/ dlCalls[k].title = videoInfo.title
                 \/ \E j \in 1..Len(videoInfo.entries) : dlCalls[k] = videoInfo.entries[j]

----------------------------------------------------------------------------
(* Claims about termination, under SpecLive                                *)

\* the metadata command exited 0 and printed an object that declares itself
\* a playlist or has an entries field, with any number of member entries
DeclaredCollection ==
    /\ Fetched
    /\ ~infoJson.exception
    /\ ~infoJson.sh.thrown
    /\ MetaDoc.kind = "object"
    /\ MetaDoc._type = "playlist" \/ MetaDoc.hasEntries

====
